---- MODULE Spec2Model ----
(***************************************************************************)
(* bevy-asteroids (src/src/main.rs): the Game singleton, the entity store, *)
(* the three event channels and the systems of the Update stage.           *)
(*                                                                         *)
(* One frame is: the systems of the Update stage, each exactly once, in an *)
(* order the engine chooses (main.rs:29-47 states no ordering); then the   *)
(* frame boundary: the command buffers are applied, the event buffers      *)
(* rotate and the UI focus pass reads the mouse.  A system that no system  *)
(* still to run can affect, and that affects none of them, runs before the *)
(* others, in the order of registration: every schedule of the frame is    *)
(* equivalent to one of that form.                                         *)
(*                                                                         *)
(* The player and the physics engine are the environment: the clicks, the  *)
(* Space presses and the intersecting pairs are chosen freely, within the  *)
(* run's budget env.  The motion of the entities (rapier, controls) is not *)
(* computed: Spec leaves an entity where it was spawned, and SpecWrap      *)
(* starts from the places the motion may have carried it to.  The text     *)
(* systems update_score and update_lives write nothing the model keeps.    *)
(*                                                                         *)
(* Lengths are in quarter pixels (ASTEROID_BASE = 16.25 px = 65), angles   *)
(* in milliradians, cos/sin in thousandths.                                *)
(***************************************************************************)
EXTENDS Integers, Sequences, FiniteSets, TLC

\* ---------------------------------------------------------------- bounds
\* primary window, in quarter pixels (windows.get_primary(), main.rs:75,162)
WindowWidth == 5120
WindowHeight == 2880
\* start-button clicks the player makes in a run
MaxClicks == 2
\* Space presses in a run
MaxShots == 3
\* how far transform_vector carries a position from the origin, per axis
MaxTravel == 800
\* intersecting pairs the physics engine reports in one frame
MaxPairs == 2

\* ------------------------------------------------------- program constants
ASTEROID_BASE == 65
INITIAL_SCORE == 0
INITIAL_LIVES == 3
BULLET_SPEED == 200
\* u8 (main.rs:117-118)
U8 == 256
\* meteor.size > 2 (main.rs:226)
SplitThreshold == 2
\* MeteorSpawnEvent.size of the first meteor (main.rs:86)
InitialMeteorSize == 8
\* Vec2::from_angle(0.7) (main.rs:229,237), PI / 2.0 (main.rs:91,214)
SplitAngle == 700
HalfPi == 1571
\* std::f32::consts::PI (utils.rs:17), in milliradians
Pi == 3142
\* Sprite custom_size of the ship, Vec2::new(65.0, 33.0) (main.rs:301)
ShipWidth == 260
ShipHeight == 132

VARIABLES
    game,           \* the Game component: [score, lives, gameState]
    ents,           \* the entity store: a sequence of entities, in query order
    despawns,       \* command buffers: indices of ents to despawn at the boundary
    spawns,         \* command buffers: entities to spawn, per spawning system
    meteorEvents,   \* Events<MeteorSpawnEvent>: the unread events of the
                    \* older buffer (a) and of the newer one (b)
    shipEvents,     \* Events<ShipSpawnEvent>
    startEvents,    \* Events<StartGameEvent>
    pairs,          \* RapierContext: the intersecting <<meteor, other>> index
                    \* pairs spaceship_collision was given this frame
    clickable,      \* the button was laid out (displayed) when the frame began
    buttonDisplay,  \* Style.display of the GameAction button
    messageDisplay, \* Style.display of the GameMessage text
    pending,        \* systems of the Update stage that have not run this frame
    panicked,       \* the process aborted (arithmetic overflow, checked build)
    env             \* the run's budget: [clicks, shots] left, and whether
                    \* meteors reach the ship (exposed)

vars == <<game, ents, despawns, spawns, meteorEvents, shipEvents, startEvents,
          pairs, clickable, buttonDisplay, messageDisplay, pending, panicked,
          env>>

\* ------------------------------------------------------------ vocabulary
GameStates == {"Loading", "InProgress", "Ended", "Waiting"}

Systems == {"setup_physics", "button_interaction", "update_game_state",
            "update_button", "update_message", "create_meteor", "create_ship",
            "spaceship_collision", "spawn_bullet", "screen_wrap",
            "screen_despawn"}

Abs(x) == IF x < 0 THEN -x ELSE x

Max(a, b) == IF a > b THEN a ELSE b

Indices(kind) == {i \in 1..Len(ents) : ents[i].kind = kind}

\* ----------------------------------------------------------------- Vec2
\* Vec2::from_angle: (cos a, sin a), in thousandths, for the angles the
\* program uses.
FromAngle(a) ==
    CASE a = 0 -> <<1000, 0>>
      [] a = SplitAngle -> <<765, 644>>
      [] a = -SplitAngle -> <<765, -644>>
      [] a = HalfPi -> <<0, 1000>>

\* Vec2::rotate: complex multiplication by a unit vector.
Rotate(v, r) ==
    <<(v[1] * r[1] - v[2] * r[2]) \div 1000, (v[2] * r[1] + v[1] * r[2]) \div 1000>>

\* --------------------------------------------------------------- events
\* bevy Events<T>: two buffers; a reader sees what was sent since it last
\* read.  Each channel has one reader (create_meteor, create_ship,
\* update_game_state), so only the events it has not read are kept.
NoEvents == [a |-> <<>>, b |-> <<>>]

Send(ch, evs) == [ch EXCEPT !.b = @ \o evs]

\* a reader that sees only the events sent in its own frame
UnreadThisFrame(ch) == ch.b

Unread(ch) == ch.a \o ch.b

MarkRead(ch) == NoEvents

\* Events::update, once per frame: the older buffer is dropped.
EventsUpdate(ch) == [a |-> ch.b, b |-> <<>>]

\* ------------------------------------------------------------- entities
RECURSIVE SortedSeq(_)
SortedSeq(S) ==
    IF S = {} THEN <<>>
    ELSE LET m == CHOOSE x \in S : \A y \in S : x <= y
         IN <<m>> \o SortedSeq(S \ {m})

\* create_meteor's entity for one MeteorSpawnEvent. The TransformBundle
\* inserted last replaces the SpriteBundle's Transform.
MeteorEntity(ev) ==
    [kind |-> "Meteor", size |-> ev.size,
     pos |-> ev.initial_position, vel |-> ev.initial_velocity, rot |-> 0,
     custom_size |-> {<<ASTEROID_BASE * ev.size, ASTEROID_BASE * ev.size>>},
     tags |-> {"ScreenWrap"}]

\* create_ship's entity for one ShipSpawnEvent. Two TransformBundles are
\* inserted: the second (from_rotation) replaces the first (from_xyz), so the
\* translation is the default one.
ShipEntity(ev) ==
    [kind |-> "Spaceship", size |-> 0,
     pos |-> <<0, 0>>, vel |-> <<0, 0>>, rot |-> ev.initial_orientation,
     custom_size |-> {<<ShipWidth, ShipHeight>>},
     tags |-> {"ScreenWrap"}]

\* a bullet carrying the wrap tag as well
BulletEntityWrapping(ship) ==
    [kind |-> "Bullet", size |-> 0,
     pos |-> ship.pos,
     vel |-> <<(FromAngle(ship.rot)[1] * BULLET_SPEED) \div 1000 + ship.vel[1],
               (FromAngle(ship.rot)[2] * BULLET_SPEED) \div 1000 + ship.vel[2]>>,
     rot |-> 0, custom_size |-> {}, tags |-> {"ScreenWrap", "ScreenDespawn"}]

\* spawn_bullet's entity for one ship.
BulletEntity(ship) ==
    [kind |-> "Bullet", size |-> 0,
     pos |-> ship.pos,
     vel |-> <<(FromAngle(ship.rot)[1] * BULLET_SPEED) \div 1000 + ship.vel[1],
               (FromAngle(ship.rot)[2] * BULLET_SPEED) \div 1000 + ship.vel[2]>>,
     rot |-> 0, custom_size |-> {}, tags |-> {"ScreenDespawn"}]

\* a ShipSpawnEvent with the default orientation
ShipSpawnFacingRight == [initial_position |-> <<0, 0>>, initial_orientation |-> 0]

\* the ShipSpawnEvent both senders build (main.rs:89-92, 212-215)
ShipSpawn == [initial_position |-> <<0, 0>>, initial_orientation |-> HalfPi]

\* random::<f32>() * 100.0 - 50.0 per axis, in px/s (main.rs:81)
InitVelocities == {<<-30, 20>>}

\* (random::<f32>() - 0.5) * window size per axis (main.rs:83-84)
InitPositions == {<<WindowWidth \div 4, -(WindowHeight \div 4)>>}

\* --------------------------------------------------------------- systems
\* the systems in the order main and its plugins add them (main.rs:24-25,
\* 37-45, 613-614)
Registered == <<"screen_wrap", "screen_despawn", "setup_physics",
                "button_interaction", "update_game_state", "update_button",
                "update_message", "create_meteor", "create_ship",
                "spaceship_collision", "spawn_bullet">>

\* the place of a system in that order
Prio(sys) == CHOOSE k \in 1..Len(Registered) : Registered[k] = sys

\* the systems that share a Game, an event channel or a Style with sys, one
\* of the two writing it
Deps(sys) ==
    CASE sys = "button_interaction" -> {"update_game_state"}
      [] sys = "update_game_state" -> {"button_interaction", "setup_physics", "spaceship_collision", "update_button", "update_message"}
      [] sys = "setup_physics" -> {"update_game_state", "spaceship_collision", "update_button", "update_message", "create_meteor", "create_ship"}
      [] sys = "spaceship_collision" -> {"update_game_state", "setup_physics", "update_button", "update_message", "create_meteor", "create_ship"}
      [] sys \in {"update_button", "update_message"} -> {"setup_physics", "update_game_state", "spaceship_collision"}
      [] sys \in {"create_meteor", "create_ship"} -> {"setup_physics", "spaceship_collision"}
      [] OTHER -> {}

\* none of them is still to run
Free(sys) == sys \in pending /\ Deps(sys) \cap pending = {}

\* what the systems still to run may do in this frame: send a start event,
\* read one, send spawn events, find a ship or a bullet hit
CanClick == clickable /\ env.clicks > 0

MayStart ==
    /\ "update_game_state" \in pending
    /\ \/ startEvents.a \o startEvents.b # <<>>
       \/ "button_interaction" \in pending /\ CanClick

MaySpawn ==
    /\ "setup_physics" \in pending
    /\ game.gameState = "Loading" \/ MayStart

Has(kind) == \E i \in 1..Len(ents) : ents[i].kind = kind

MayHitShip ==
    /\ "spaceship_collision" \in pending
    /\ env.exposed /\ Has("Meteor") /\ Has("Spaceship")

MayHitBullet ==
    "spaceship_collision" \in pending /\ Has("Meteor") /\ Has("Bullet")

\* sys reads nothing a system still to run may write, and writes nothing
\* one of them reads, whatever the environment chooses
Quiet(sys) ==
    /\ sys \in pending
    /\ CASE sys = "button_interaction" -> ~CanClick
         [] sys = "update_game_state" -> ~MayStart /\ (~Has("Meteor") \/ ~MayHitShip)
         [] sys = "setup_physics" -> ~MaySpawn
         [] sys = "spaceship_collision" -> ~MayHitShip /\ ~MayHitBullet
         [] sys \in {"update_button", "update_message"} ->
                ~MayStart /\ ~MaySpawn /\ ~MayHitShip
         [] sys = "create_meteor" -> ~MaySpawn /\ ~MayHitBullet
         [] sys = "create_ship" -> ~MaySpawn /\ ~MayHitShip
         [] OTHER -> TRUE

\* running sys now or later in the frame makes no difference
Settled(sys) == Free(sys) \/ Quiet(sys)

\* the systems the engine may run next: the first settled one, or any
Runnable ==
    IF \E t \in pending : Settled(t)
    THEN {t \in pending :
            Settled(t) /\ \A u \in pending : Settled(u) => Prio(t) <= Prio(u)}
    ELSE pending

Run(sys) ==
    /\ ~panicked
    /\ sys \in Runnable
    /\ pending' = pending \ {sys}

\* a first meteor of half the size
InitialMeteorHalved(v, p) ==
    [size |-> InitialMeteorSize \div 2, initial_velocity |-> v,
     initial_position |-> p]

\* the MeteorSpawnEvent of setup_physics (main.rs:79-87)
InitialMeteor(v, p) ==
    [size |-> InitialMeteorSize, initial_velocity |-> v, initial_position |-> p]

setup_physics ==
    /\ Run("setup_physics")
    /\ IF game.gameState = "Loading"
       THEN \E v \in InitVelocities, p \in InitPositions :
              /\ meteorEvents' = Send(meteorEvents, <<InitialMeteor(v, p)>>)
              /\ shipEvents' = Send(shipEvents, <<ShipSpawn>>)
              /\ game' = [game EXCEPT !.gameState = "InProgress"]
       ELSE UNCHANGED <<meteorEvents, shipEvents, game>>
    /\ UNCHANGED <<ents, despawns, spawns, startEvents, pairs, clickable,
                   buttonDisplay, messageDisplay, panicked, env>>

\* Interaction::Clicked is the player's choice while the button is laid out
button_interaction ==
    /\ Run("button_interaction")
    /\ \E clicked \in IF CanClick THEN BOOLEAN ELSE {FALSE} :
          /\ startEvents' = IF clicked
                            THEN Send(startEvents, <<"StartGameEvent">>)
                            ELSE startEvents
          /\ env' = IF clicked THEN [env EXCEPT !.clicks = @ - 1] ELSE env
    /\ UNCHANGED <<game, ents, despawns, spawns, meteorEvents, shipEvents, pairs,
                   clickable, buttonDisplay, messageDisplay, panicked>>

\* a start that leaves the lives as they are
StartGameKeepingLives(g) ==
    [g EXCEPT !.gameState = "Loading", !.score = INITIAL_SCORE]

\* the body of `for _ev in game_event.iter()` (main.rs:399-401)
StartGame(g) ==
    [g EXCEPT !.gameState = "Loading", !.lives = INITIAL_LIVES,
              !.score = INITIAL_SCORE]

\* `for entity in entity_query.iter()` (main.rs:404-409)
EndedDespawns(g) == IF g.gameState = "Ended" THEN Indices("Meteor") ELSE {}

update_game_state ==
    /\ Run("update_game_state")
    /\ game' = IF Unread(startEvents) # <<>> THEN StartGame(game) ELSE game
    /\ startEvents' = MarkRead(startEvents)
    /\ despawns' = despawns \cup EndedDespawns(game')
    /\ UNCHANGED <<ents, spawns, meteorEvents, shipEvents, pairs, clickable,
                   buttonDisplay, messageDisplay, panicked, env>>

\* the match of update_button (main.rs:584-587)
ButtonDisplay(state) == IF state = "InProgress" THEN "None" ELSE "Flex"

update_button ==
    /\ Run("update_button")
    /\ buttonDisplay' = ButtonDisplay(game.gameState)
    /\ UNCHANGED <<game, ents, despawns, spawns, meteorEvents, shipEvents,
                   startEvents, pairs, clickable, messageDisplay, panicked, env>>

\* the match of update_message (main.rs:598-601)
MessageDisplay(state) == IF state = "Ended" THEN "Flex" ELSE "None"

update_message ==
    /\ Run("update_message")
    /\ messageDisplay' = MessageDisplay(game.gameState)
    /\ UNCHANGED <<game, ents, despawns, spawns, meteorEvents, shipEvents,
                   startEvents, pairs, clickable, buttonDisplay, panicked, env>>

create_meteor ==
    /\ Run("create_meteor")
    /\ spawns' = [spawns EXCEPT !.meteors =
                    @ \o [k \in 1..Len(Unread(meteorEvents)) |->
                            MeteorEntity(Unread(meteorEvents)[k])]]
    /\ meteorEvents' = MarkRead(meteorEvents)
    /\ UNCHANGED <<game, ents, despawns, shipEvents, startEvents, pairs,
                   clickable, buttonDisplay, messageDisplay, panicked, env>>

create_ship ==
    /\ Run("create_ship")
    /\ spawns' = [spawns EXCEPT !.ships =
                    @ \o [k \in 1..Len(Unread(shipEvents)) |->
                            ShipEntity(Unread(shipEvents)[k])]]
    /\ shipEvents' = MarkRead(shipEvents)
    /\ UNCHANGED <<game, ents, despawns, meteorEvents, startEvents, pairs,
                   clickable, buttonDisplay, messageDisplay, panicked, env>>

\* ---------------------------------------------------------- screen bounds
\* Sprite.custom_size.map(|s| s.x.max(s.y)).unwrap_or(0.0) (main.rs:164-167)
BiggestDimension(custom_size) ==
    IF custom_size = {} THEN 0
    ELSE LET size == CHOOSE c \in custom_size : TRUE IN Max(size[1], size[2])

\* the test with the half dimension added to the coordinate
BeyondInner(c, biggest_dimension, extent) ==
    2 * Abs(c) + biggest_dimension > extent

\* (c.abs() - biggest_dimension / 2.0) > extent / 2.0, without the halves
Beyond(c, biggest_dimension, extent) == 2 * Abs(c) - biggest_dimension > extent

\* a wrap that puts the entity on the opposite edge
WrapAxisToEdge(c, biggest_dimension, extent) ==
    IF 2 * Abs(c) - biggest_dimension > extent
    THEN (IF c > 0 THEN -(extent \div 2) ELSE extent \div 2)
    ELSE c

\* one axis of screen_wrap (main.rs:168-170, 171-173)
WrapAxis(c, biggest_dimension, extent) ==
    IF Beyond(c, biggest_dimension, extent) THEN c * (-1) ELSE c

\* the body of screen_wrap's loop, on a translation (main.rs:164-173)
WrapTranslation(pos, custom_size) ==
    <<WrapAxis(pos[1], BiggestDimension(custom_size), WindowWidth),
      WrapAxis(pos[2], BiggestDimension(custom_size), WindowHeight)>>

\* Query<(&mut Transform, &Sprite, &ScreenWrap)>: every entity spawned here
\* carries a Sprite.
screen_wrap ==
    /\ Run("screen_wrap")
    /\ ents' = [i \in 1..Len(ents) |->
                  IF "ScreenWrap" \in ents[i].tags
                  THEN [ents[i] EXCEPT
                          !.pos = WrapTranslation(@, ents[i].custom_size)]
                  ELSE ents[i]]
    /\ UNCHANGED <<game, despawns, spawns, meteorEvents, shipEvents, startEvents,
                   pairs, clickable, buttonDisplay, messageDisplay, panicked, env>>

\* either test of screen_despawn's loop, biggest_dimension = 0.0 (main.rs:184-190)
\* screen_despawn testing both coordinates at once
OffScreenBoth(pos) ==
    /\ Beyond(pos[1], 0, WindowWidth)
    /\ Beyond(pos[2], 0, WindowHeight)

OffScreen(pos) ==
    \/ Beyond(pos[1], 0, WindowWidth)
    \/ Beyond(pos[2], 0, WindowHeight)

screen_despawn ==
    /\ Run("screen_despawn")
    /\ despawns' = despawns \cup
          {i \in 1..Len(ents) :
              "ScreenDespawn" \in ents[i].tags /\ OffScreen(ents[i].pos)}
    /\ UNCHANGED <<game, ents, spawns, meteorEvents, shipEvents, startEvents,
                   pairs, clickable, buttonDisplay, messageDisplay, panicked, env>>

\* ------------------------------------------------------------ collisions
\* What one run of spaceship_collision accumulates: the Game, the events it
\* sends, the despawns it queues, and whether a u8 operation overflowed.
PassStart ==
    [game |-> game, meteors |-> <<>>, ships |-> <<>>, despawns |-> {},
     overflow |-> FALSE]

\* the body of `if intersection_pair(meteor, ship)` (main.rs:209-218);
\* game.lives -= 1 wraps where overflow checks are off
ShipHit(st, s) ==
    LET lives == (st.game.lives - 1) % U8
    IN [st EXCEPT
          !.despawns = @ \cup {s},
          !.overflow = @ \/ st.game.lives = 0,
          !.game = [@ EXCEPT !.lives = lives,
                             !.gameState = IF lives > 0 THEN @ ELSE "Ended"],
          !.ships = IF lives > 0 THEN Append(@, ShipSpawn) ELSE @]

\* a split whose children both turn the same way
ChildrenOneWay(meteor) ==
    <<[size |-> meteor.size \div 2,
       initial_velocity |-> Rotate(meteor.vel, FromAngle(SplitAngle)),
       initial_position |-> meteor.pos],
      [size |-> meteor.size \div 2,
       initial_velocity |-> Rotate(meteor.vel, FromAngle(SplitAngle)),
       initial_position |-> meteor.pos]>>

\* the two MeteorSpawnEvents of a split (main.rs:227-242)
Children(meteor) ==
    <<[size |-> meteor.size \div 2,
       initial_velocity |-> Rotate(meteor.vel, FromAngle(SplitAngle)),
       initial_position |-> meteor.pos],
      [size |-> meteor.size \div 2,
       initial_velocity |-> Rotate(meteor.vel, FromAngle(-SplitAngle)),
       initial_position |-> meteor.pos]>>

\* a split of the smallest meteors too
SplitsAtThreshold(meteor) == meteor.size >= SplitThreshold

\* `if meteor.size > 2` (main.rs:226)
Splits(meteor) == meteor.size > SplitThreshold

\* the body of `if intersection_pair(meteor, bullet)` (main.rs:224-245)
BulletHit(st, m, b) ==
    [st EXCEPT
       !.game.score = (@ + 1) % U8,
       !.overflow = @ \/ st.game.score = U8 - 1,
       !.meteors = IF Splits(ents[m]) THEN @ \o Children(ents[m]) ELSE @,
       !.despawns = @ \cup {m, b}]

RECURSIVE ShipLoop(_, _, _, _)
ShipLoop(st, m, ships, ps) ==
    IF ships = <<>> THEN st
    ELSE ShipLoop(IF <<m, Head(ships)>> \in ps THEN ShipHit(st, Head(ships))
                  ELSE st, m, Tail(ships), ps)

RECURSIVE BulletLoop(_, _, _, _)
BulletLoop(st, m, bullets, ps) ==
    IF bullets = <<>> THEN st
    ELSE BulletLoop(IF <<m, Head(bullets)>> \in ps
                    THEN BulletHit(st, m, Head(bullets)) ELSE st,
                    m, Tail(bullets), ps)

\* `for ... in query_meteor.iter()` (main.rs:204-248)
RECURSIVE MeteorLoop(_, _, _)
MeteorLoop(st, meteors, ps) ==
    IF meteors = <<>> THEN st
    ELSE MeteorLoop(
            BulletLoop(ShipLoop(st, Head(meteors),
                                SortedSeq(Indices("Spaceship")), ps),
                       Head(meteors), SortedSeq(Indices("Bullet")), ps),
            Tail(meteors), ps)

CollisionPass(ps) == MeteorLoop(PassStart, SortedSeq(Indices("Meteor")), ps)

\* the pairs the physics engine may report: a meteor and a ship or a bullet
PossiblePairs ==
    Indices("Meteor") \X
        ((IF env.exposed THEN Indices("Spaceship") ELSE {}) \cup Indices("Bullet"))

\* the sets of at most n elements of S
RECURSIVE UpTo(_, _)
UpTo(S, n) ==
    IF n = 0 THEN {{}}
    ELSE UpTo(S, n - 1) \cup {x \cup {p} : x \in UpTo(S, n - 1), p \in S}

\* what the physics engine may report in a frame
ReportedPairs == UpTo(PossiblePairs, MaxPairs)

\* a pass that spawns the children of a split itself instead of sending
\* their events
spaceship_collision_spawning ==
    /\ Run("spaceship_collision")
    /\ \E ps \in ReportedPairs :
          LET pass == CollisionPass(ps)
          IN /\ pairs' = ps
             /\ game' = pass.game
             /\ spawns' = [spawns EXCEPT !.meteors =
                             @ \o [k \in 1..Len(pass.meteors) |->
                                     MeteorEntity(pass.meteors[k])]]
             /\ shipEvents' = Send(shipEvents, pass.ships)
             /\ despawns' = despawns \cup pass.despawns
    /\ UNCHANGED <<ents, meteorEvents, startEvents, clickable, buttonDisplay,
                   messageDisplay, panicked, env>>

spaceship_collision ==
    /\ Run("spaceship_collision")
    /\ \E ps \in ReportedPairs :
          LET pass == CollisionPass(ps)
          IN /\ pairs' = ps
             /\ \/ /\ game' = pass.game
                   /\ meteorEvents' = Send(meteorEvents, pass.meteors)
                   /\ shipEvents' = Send(shipEvents, pass.ships)
                   /\ despawns' = despawns \cup pass.despawns
                   /\ UNCHANGED panicked
                \/ \* "attempt to subtract with overflow": overflow checks are on
                   /\ pass.overflow
                   /\ panicked' = TRUE
                   /\ UNCHANGED <<game, meteorEvents, shipEvents, despawns>>
    /\ UNCHANGED <<ents, spawns, startEvents, clickable, buttonDisplay,
                   messageDisplay, env>>

\* keyboard_input.just_pressed(KeyCode::Space) is the player's choice
spawn_bullet ==
    /\ Run("spawn_bullet")
    /\ \E just_pressed \in IF env.shots > 0 THEN BOOLEAN ELSE {FALSE} :
          /\ spawns' = IF just_pressed
                       THEN [spawns EXCEPT !.bullets =
                              [k \in 1..Cardinality(Indices("Spaceship")) |->
                                 BulletEntity(ents[SortedSeq(Indices("Spaceship"))[k]])]]
                       ELSE spawns
          /\ env' = IF just_pressed THEN [env EXCEPT !.shots = @ - 1] ELSE env
    /\ UNCHANGED <<game, ents, despawns, meteorEvents, shipEvents, startEvents,
                   pairs, clickable, buttonDisplay, messageDisplay, panicked>>

\* ---------------------------------------------------------- frame boundary
NoSpawns == [meteors |-> <<>>, ships |-> <<>>, bullets |-> <<>>]

\* Commands applied at the end of the stage: the despawns, and each system's
\* spawns in the order the systems were added (main.rs:42-45).
Despawned ==
    SelectSeq([i \in 1..Len(ents) |-> [e |-> ents[i], keep |-> i \notin despawns]],
              LAMBDA x : x.keep)

\* Query iteration follows no order of spawning; the store is kept in one
\* order, by kind, size, translation, velocity and rotation.
Rank(kind) == CASE kind = "Meteor" -> 1 [] kind = "Spaceship" -> 2 [] OTHER -> 3

Key(e) == <<Rank(e.kind), e.size, e.pos[1], e.pos[2], e.vel[1], e.vel[2], e.rot>>

RECURSIVE LexLeq(_, _)
LexLeq(k1, k2) ==
    IF k1 = <<>> THEN TRUE
    ELSE IF Head(k1) # Head(k2) THEN Head(k1) < Head(k2)
    ELSE LexLeq(Tail(k1), Tail(k2))

RECURSIVE Insert(_, _)
Insert(e, s) ==
    IF s = <<>> THEN <<e>>
    ELSE IF LexLeq(Key(e), Key(Head(s))) THEN <<e>> \o s
    ELSE <<Head(s)>> \o Insert(e, Tail(s))

RECURSIVE Canonical(_)
Canonical(s) == IF s = <<>> THEN <<>> ELSE Insert(Head(s), Canonical(Tail(s)))

ApplyCommands ==
    Canonical([i \in 1..Len(Despawned) |-> Despawned[i].e]
        \o spawns.meteors \o spawns.ships \o spawns.bullets)

FrameBoundary ==
    /\ ~panicked
    /\ pending = {}
    /\ ents' = ApplyCommands
    /\ pairs' = {}
    /\ despawns' = {}
    /\ spawns' = NoSpawns
    /\ meteorEvents' = EventsUpdate(meteorEvents)
    /\ shipEvents' = EventsUpdate(shipEvents)
    /\ startEvents' = EventsUpdate(startEvents)
    /\ clickable' = (buttonDisplay = "Flex")
    /\ pending' = Systems
    /\ UNCHANGED <<game, buttonDisplay, messageDisplay, panicked, env>>

\* ------------------------------------------------------------------ spec
\* the runs explored: a player who restarts and is hit but never fires, a
\* player who fires and is never hit, and a player who fires once and is hit
Budgets ==
    {[clicks |-> MaxClicks, shots |-> 0, exposed |-> TRUE],
     [clicks |-> 1, shots |-> MaxShots, exposed |-> FALSE],
     [clicks |-> 1, shots |-> 1, exposed |-> TRUE]}

\* after the startup systems (setup_game main.rs:129-139, setup_ui: Style default)
Init ==
    /\ game = [score |-> INITIAL_SCORE, lives |-> INITIAL_LIVES,
               gameState |-> "Waiting"]
    /\ ents = <<>>
    /\ despawns = {}
    /\ spawns = NoSpawns
    /\ meteorEvents = NoEvents
    /\ shipEvents = NoEvents
    /\ startEvents = NoEvents
    /\ pairs = {}
    /\ clickable = FALSE
    /\ buttonDisplay = "Flex"
    /\ messageDisplay = "Flex"
    /\ pending = Systems
    /\ panicked = FALSE
    /\ env \in Budgets

Next ==
    \/ setup_physics
    \/ button_interaction
    \/ update_game_state
    \/ update_button
    \/ update_message
    \/ create_meteor
    \/ create_ship
    \/ spaceship_collision
    \/ spawn_bullet
    \/ screen_wrap
    \/ screen_despawn
    \/ FrameBoundary

Spec == Init /\ [][Next]_vars

\* ------------------------------------------------------- screen_wrap alone
\* A game in progress with one wrap-tagged entity that the physics engine
\* has carried to a position around the edges of the window; nobody clicks
\* or fires and nothing intersects.
WrapDimensions == {ASTEROID_BASE * 8, ASTEROID_BASE * 4, ASTEROID_BASE * 2}

EdgeCoords(extent) ==
    {0, extent \div 2 + 4, -(extent \div 2 + 4)}
        \cup {(extent + d) \div 2 : d \in WrapDimensions}
        \cup {(extent + d) \div 2 + 4 : d \in WrapDimensions}

WrapEntities ==
    {[MeteorEntity([size |-> n, initial_velocity |-> <<0, 0>>,
                    initial_position |-> <<x, y>>]) EXCEPT !.pos = <<x, y>>] :
        n \in {8, 4, 2}, x \in EdgeCoords(WindowWidth),
        y \in EdgeCoords(WindowHeight)}
    \cup
    {[ShipEntity(ShipSpawn) EXCEPT !.pos = <<x, y>>] :
        x \in EdgeCoords(WindowWidth), y \in EdgeCoords(WindowHeight)}

InitWrap ==
    /\ game = [score |-> INITIAL_SCORE, lives |-> INITIAL_LIVES,
               gameState |-> "InProgress"]
    /\ \E e \in WrapEntities : ents = <<e>>
    /\ despawns = {}
    /\ spawns = NoSpawns
    /\ meteorEvents = NoEvents
    /\ shipEvents = NoEvents
    /\ startEvents = NoEvents
    /\ pairs = {}
    /\ clickable = FALSE
    /\ buttonDisplay = "None"
    /\ messageDisplay = "None"
    /\ pending = Systems
    /\ panicked = FALSE
    /\ env = [clicks |-> 0, shots |-> 0, exposed |-> FALSE]

SpecWrap == InitWrap /\ [][Next]_vars

\* screen_despawn at the edges: one bullet in flight, on, just beyond or far
\* beyond an edge of the window, the game in progress and the player idle
DespawnCoords(extent) ==
    {0, extent \div 2, -(extent \div 2), extent \div 2 + 4,
     -(extent \div 2 + 4), extent}

DespawnEntities ==
    {[BulletEntity(ShipEntity(ShipSpawn)) EXCEPT !.pos = <<x, y>>] :
        x \in DespawnCoords(WindowWidth), y \in DespawnCoords(WindowHeight)}

InitDespawn ==
    /\ game = [score |-> INITIAL_SCORE, lives |-> INITIAL_LIVES,
               gameState |-> "InProgress"]
    /\ \E e \in DespawnEntities : ents = <<e>>
    /\ despawns = {}
    /\ spawns = NoSpawns
    /\ meteorEvents = NoEvents
    /\ shipEvents = NoEvents
    /\ startEvents = NoEvents
    /\ pairs = {}
    /\ clickable = FALSE
    /\ buttonDisplay = "None"
    /\ messageDisplay = "None"
    /\ pending = Systems
    /\ panicked = FALSE
    /\ env = [clicks |-> 0, shots |-> 0, exposed |-> FALSE]

SpecDespawn == InitDespawn /\ [][Next]_vars

\* ------------------------------------------------------------- utils.rs
\* Quaternions of rotations about the z axis, as [z, w] in thousandths.
\* Quat::from_axis_angle(Vec3::new(0.0, 0.0, 1.0), angle) is
\* (0, 0, sin(angle / 2), cos(angle / 2)) (utils.rs:26-46).
from_axis_angle(angle) ==
    CASE angle = 0 -> [z |-> 0, w |-> 1000]
      [] angle = HalfPi -> [z |-> 707, w |-> 707]
      [] angle = Pi -> [z |-> 1000, w |-> 0]
      [] angle = 3 * HalfPi -> [z |-> 707, w |-> -707]
      [] angle = (5 * Pi) \div 4 -> [z |-> 924, w |-> -383]
      [] angle = -HalfPi -> [z |-> -707, w |-> 707]
      [] angle = -Pi -> [z |-> -1000, w |-> 0]

\* Quat::to_axis_angle: the angle is 2 * acos(w), between 0 and 2 * Pi, and the
\* axis is the normalised vector part, which carries the sense of rotation.
to_axis_angle(q) ==
    <<IF q.z > 0 THEN 1 ELSE IF q.z < 0 THEN -1 ELSE 0,
      CASE q.w = 1000 -> 0
        [] q.w = 707 -> HalfPi
        [] q.w = 0 -> Pi
        [] q.w = -707 -> 3 * HalfPi
        [] q.w = -383 -> (5 * Pi) \div 4>>

\* f32::cos and f32::sin, in thousandths
CosSin(a) ==
    CASE a = 0 -> <<1000, 0>>
      [] a = HalfPi -> <<0, 1000>>
      [] a = Pi -> <<-1000, 0>>
      [] a = 3 * HalfPi -> <<0, -1000>>
      [] a = (5 * Pi) \div 4 -> <<-707, -707>>
      [] a = -HalfPi -> <<0, -1000>>
      [] a = -Pi -> <<-1000, 0>>

create_movement_vector(orientation, velocity) ==
    LET rotation == to_axis_angle(orientation)[2]
    IN <<(CosSin(rotation)[1] * velocity) \div 1000,
         (CosSin(rotation)[2] * velocity) \div 1000>>

transform_vector(position, orientation, velocity) ==
    <<position[1] + create_movement_vector(orientation, velocity)[1],
      position[2] + create_movement_vector(orientation, velocity)[2]>>

\* the orientations of the tests, and two clockwise ones (the Right key turns
\* the ship by -0.1 rad, main.rs:154-157)
Orientations == {0, HalfPi, Pi, 3 * HalfPi, (5 * Pi) \div 4, -HalfPi, -Pi}

Speeds == {100, 200}

\* one body, its Transform.rotation built from an angle about z, moved by
\* transform_vector tick after tick
InitMove ==
    /\ game = [score |-> INITIAL_SCORE, lives |-> INITIAL_LIVES,
               gameState |-> "InProgress"]
    /\ \E a \in Orientations, p \in {<<0, 0>>, <<40, 40>>} :
          ents = <<[ShipEntity([initial_position |-> <<0, 0>>,
                                initial_orientation |-> a]) EXCEPT !.pos = p]>>
    /\ despawns = {}
    /\ spawns = NoSpawns
    /\ meteorEvents = NoEvents
    /\ shipEvents = NoEvents
    /\ startEvents = NoEvents
    /\ pairs = {}
    /\ clickable = FALSE
    /\ buttonDisplay = "None"
    /\ messageDisplay = "None"
    /\ pending = Systems
    /\ panicked = FALSE
    /\ env = [clicks |-> 0, shots |-> 0, exposed |-> FALSE]

Tick ==
    /\ \E velocity \in Speeds :
          LET position == transform_vector(ents[1].pos,
                                           from_axis_angle(ents[1].rot), velocity)
          IN /\ Abs(position[1]) <= MaxTravel
             /\ Abs(position[2]) <= MaxTravel
             /\ ents' = [ents EXCEPT ![1].pos = position]
    /\ UNCHANGED <<game, despawns, spawns, meteorEvents, shipEvents,
                   startEvents, pairs, clickable, buttonDisplay,
                   messageDisplay, pending, panicked, env>>

SpecMove == InitMove /\ [][Tick]_vars

\* create_ship and create_meteor on events of any values: one unread event
\* on each channel, the game in progress and the player idle
SpawnPositions == {<<0, 0>>, <<400, 200>>, <<-400, 0>>}

SpawnEvents ==
    [ship : [initial_position : SpawnPositions, initial_orientation : {0, HalfPi}],
     meteor : [size : {InitialMeteorSize, InitialMeteorSize \div 2},
               initial_velocity : InitVelocities,
               initial_position : SpawnPositions]]

InitSpawn ==
    /\ game = [score |-> INITIAL_SCORE, lives |-> INITIAL_LIVES,
               gameState |-> "InProgress"]
    /\ ents = <<>>
    /\ despawns = {}
    /\ spawns = NoSpawns
    /\ \E evs \in SpawnEvents :
          /\ meteorEvents = Send(NoEvents, <<evs.meteor>>)
          /\ shipEvents = Send(NoEvents, <<evs.ship>>)
    /\ startEvents = NoEvents
    /\ pairs = {}
    /\ clickable = FALSE
    /\ buttonDisplay = "None"
    /\ messageDisplay = "None"
    /\ pending = Systems
    /\ panicked = FALSE
    /\ env = [clicks |-> 0, shots |-> 0, exposed |-> FALSE]

SpecSpawn == InitSpawn /\ [][Next]_vars

\* splitting: the player shoots and may click twice, the ship is out of the
\* meteors' way, and the physics engine reports at most one bullet for each
\* meteor in a frame
SplitBudget == [clicks |-> MaxClicks, shots |-> MaxShots - 1, exposed |-> FALSE]

OneBulletPerMeteor(ps) ==
    {pq \in ps \X ps :
        /\ pq[1][1] = pq[2][1]
        /\ pq[1] # pq[2]
        /\ ents[pq[1][2]].kind = "Bullet"
        /\ ents[pq[2][2]].kind = "Bullet"} = {}

InitSplit ==
    /\ game = [score |-> INITIAL_SCORE, lives |-> INITIAL_LIVES,
               gameState |-> "Waiting"]
    /\ ents = <<>>
    /\ despawns = {}
    /\ spawns = NoSpawns
    /\ meteorEvents = NoEvents
    /\ shipEvents = NoEvents
    /\ startEvents = NoEvents
    /\ pairs = {}
    /\ clickable = FALSE
    /\ buttonDisplay = "Flex"
    /\ messageDisplay = "Flex"
    /\ pending = Systems
    /\ panicked = FALSE
    /\ env = SplitBudget

\* the collision pass on such a report
spaceship_collision_single ==
    /\ spaceship_collision
    /\ OneBulletPerMeteor(pairs')

NextSplit ==
    \/ setup_physics
    \/ button_interaction
    \/ update_game_state
    \/ update_button
    \/ update_message
    \/ create_meteor
    \/ create_ship
    \/ spaceship_collision_single
    \/ spawn_bullet
    \/ screen_wrap
    \/ screen_despawn
    \/ FrameBoundary

SpecSplit == InitSplit /\ [][NextSplit]_vars

\* ---------------------------------------------------------------- claims
\* the step in which the named system runs
Ran(sys) == sys \in pending /\ sys \notin pending'

\* the pairs of this frame's collision pass whose second entity is of a kind
PairsWith(kind) == {p \in pairs' : ents[p[2]].kind = kind}

\* the events a step appended to a channel
Sent(ch, ch2) == SubSeq(ch2.b, Len(ch.b) + 1, Len(ch2.b))

\* C1: in spaceship_collision every intersecting meteor/ship pair takes
\* exactly one life; the state becomes Ended iff lives reaches 0 by it, and
\* every other collision sends exactly one ShipSpawnEvent.
C1_LifePerCollision ==
    [][(Ran("spaceship_collision") /\ ~panicked') =>
         LET n == Cardinality(PairsWith("Spaceship"))
         IN /\ game'.lives = game.lives - n
            /\ n > 0 => (game'.gameState = "Ended" <=> game'.lives = 0)
            /\ Len(Sent(shipEvents, shipEvents'))
                  = n - (IF n > 0 /\ game'.lives = 0 THEN 1 ELSE 0)]_vars

\* the step that ends the frame
Boundary == pending = {} /\ pending' = Systems

\* how many entities of a sequence equal e
Copies(e, seq) == Cardinality({k \in 1..Len(seq) : seq[k] = e})

\* C2: a bullet hitting a meteor of size > 2 sends exactly two
\* MeteorSpawnEvents of half the size, at the meteor's position, with the
\* meteor's velocity rotated by +0.7 and by -0.7 rad (cos 0.765, sin 0.644),
\* and queues the despawn of the meteor and of the bullet; create_meteor
\* spawns a meteor of that size, position and velocity for each event, and
\* the frame boundary removes the despawned and adds the spawned entities.
C2_SplitInTwo ==
    [][/\ (Ran("spaceship_collision") /\ ~panicked') =>
            /\ \A p \in PairsWith("Bullet") :
                 /\ {p[1], p[2]} \subseteq despawns'
                 /\ ents[p[1]].size > 2 =>
                      \A sgn \in {1, -1} :
                         \E k \in 1..Len(Sent(meteorEvents, meteorEvents')) :
                            Sent(meteorEvents, meteorEvents')[k] =
                               [size |-> ents[p[1]].size \div 2,
                                initial_position |-> ents[p[1]].pos,
                                initial_velocity |->
                                   <<(ents[p[1]].vel[1] * 765
                                        - sgn * ents[p[1]].vel[2] * 644) \div 1000,
                                     (ents[p[1]].vel[2] * 765
                                        + sgn * ents[p[1]].vel[1] * 644) \div 1000>>]
            /\ Len(Sent(meteorEvents, meteorEvents'))
                 = 2 * Cardinality({p \in PairsWith("Bullet") : ents[p[1]].size > 2})
       /\ Ran("create_meteor") =>
            /\ Len(spawns'.meteors)
                 = Len(spawns.meteors) + Len(meteorEvents.a) + Len(meteorEvents.b)
            /\ \A k \in 1..Len(meteorEvents.a \o meteorEvents.b) :
                 LET ev == (meteorEvents.a \o meteorEvents.b)[k]
                     e == spawns'.meteors[Len(spawns.meteors) + k]
                 IN /\ e.kind = "Meteor"
                    /\ e.size = ev.size
                    /\ e.pos = ev.initial_position
                    /\ e.vel = ev.initial_velocity
       /\ Boundary =>
            /\ Len(ents') = Len(ents) - Cardinality(despawns)
                              + Len(spawns.meteors) + Len(spawns.ships)
                              + Len(spawns.bullets)
            /\ \A i \in 1..Len(ents) :
                 Copies(ents[i], ents')
                    = Cardinality({j \in 1..Len(ents) :
                                     j \notin despawns /\ ents[j] = ents[i]})
                      + Copies(ents[i], spawns.meteors \o spawns.ships
                                           \o spawns.bullets)
            /\ \A k \in 1..Len(spawns.meteors) :
                 Copies(spawns.meteors[k], ents') >= 1]_vars

\* a size-8 meteor was hit by a bullet: two size-4 meteors stand at its
\* position, with its velocity <<-30, 20>> rotated either way, and the
\* meteor and the bullet are gone
C2_Witness ==
    /\ pending = Systems
    /\ \E i, j \in Indices("Meteor") :
          /\ ents[i].size = 4 /\ ents[j].size = 4
          /\ ents[i].pos = ents[j].pos
          /\ ents[i].vel = <<-36, -5>> /\ ents[j].vel = <<-11, 34>>
    /\ Cardinality(Indices("Meteor")) = 2
    /\ Indices("Bullet") = {}

\* C3: only spaceship_collision and a start event change the score, and a
\* collision pass adds to it the number of meteors its bullets removed.
C3_ScoreCountsMeteors ==
    [][~panicked' =>
         IF Ran("spaceship_collision")
         THEN game'.score
                = game.score + Cardinality({p[1] : p \in PairsWith("Bullet")})
         ELSE IF Ran("update_game_state") /\ Unread(startEvents) # <<>>
         THEN game'.score = 0
         ELSE game'.score = game.score]_vars

\* C4: every change of the game state is one of Waiting -> Loading,
\* Loading -> InProgress, InProgress -> Ended, Ended -> Loading.
C4_StateEdges ==
    [][game'.gameState # game.gameState =>
         <<game.gameState, game'.gameState>> \in
            {<<"Waiting", "Loading">>, <<"Loading", "InProgress">>,
             <<"InProgress", "Ended">>, <<"Ended", "Loading">>}]_vars

\* C5 as stated: when the state has just changed from Loading to InProgress,
\* a Spaceship and a size-8 Meteor are in the entity store.
C5_EntitiesExist ==
    [][(game.gameState = "Loading" /\ game'.gameState = "InProgress") =>
         /\ \E i \in 1..Len(ents') : ents'[i].kind = "Spaceship"
         /\ \E i \in 1..Len(ents') :
               ents'[i].kind = "Meteor" /\ ents'[i].size = 8]_vars

\* C5, amended: the step that changes the state from Loading to InProgress
\* sends exactly one MeteorSpawnEvent, of size 8, and exactly one
\* ShipSpawnEvent, at the origin and heading PI/2, and spawns nothing: the
\* entity store and the command buffers are as before.
C5_EventsSent ==
    [][(game.gameState = "Loading" /\ game'.gameState = "InProgress") =>
         /\ Len(Sent(meteorEvents, meteorEvents')) = 1
         /\ Sent(meteorEvents, meteorEvents')[1].size = 8
         /\ Sent(shipEvents, shipEvents')
              = <<[initial_position |-> <<0, 0>>, initial_orientation |-> 1571]>>
         /\ ents' = ents
         /\ spawns' = spawns]_vars

\* the first game has just begun: the events are sent, the store is empty
C5_Witness ==
    /\ game.gameState = "InProgress"
    /\ "setup_physics" \notin pending
    /\ Len(meteorEvents.b) = 1 /\ meteorEvents.b[1].size = 8
    /\ Len(shipEvents.b) = 1
    /\ ents = <<>>

C7_MeteorSizes ==
    /\ \A i \in Indices("Meteor") : ents[i].size \in {8, 4, 2}
    /\ \A k \in 1..Len(spawns.meteors) : spawns.meteors[k].size \in {8, 4, 2}
    /\ \A k \in 1..Len(meteorEvents.a \o meteorEvents.b) :
          (meteorEvents.a \o meteorEvents.b)[k].size \in {8, 4, 2}

\* a bullet has hit a meteor of size 2: the meteor is to be despawned and no
\* MeteorSpawnEvent was sent
C7_Witness ==
    /\ "create_meteor" \in pending
    /\ meteorEvents.b = <<>>
    /\ \E p \in pairs :
          /\ ents[p[1]].size = 2
          /\ ents[p[2]].kind = "Bullet"
          /\ p[1] \in despawns

\* C8: at the end of a frame the button and the message are displayed only
\* in Waiting, Ended or Loading, and both are hidden in InProgress.
C8_DisplayFollowsState ==
    pending = {} =>
       /\ buttonDisplay = "Flex" => game.gameState \in {"Waiting", "Ended", "Loading"}
       /\ messageDisplay = "Flex" => game.gameState \in {"Waiting", "Ended", "Loading"}
       /\ game.gameState = "InProgress" =>
             buttonDisplay = "None" /\ messageDisplay = "None"

\* the largest dimension of the sprite of a spawned entity
Largest(e) ==
    LET c == CHOOSE c \in e.custom_size : TRUE
    IN IF c[1] > c[2] THEN c[1] ELSE c[2]

\* an axis wraps when |coordinate| is more than half the extent plus half
\* the largest dimension
Wraps(e, axis, extent) ==
    2 * (IF e.pos[axis] < 0 THEN -e.pos[axis] ELSE e.pos[axis])
       > extent + Largest(e)

\* C9 as stated: screen_wrap negates the x of a wrap-tagged entity that is
\* at window width / 2 + 1 px, and negates an axis exactly when it wraps.
C9_WrapJustOutside ==
    [][Ran("screen_wrap") =>
         \A i \in 1..Len(ents) :
            "ScreenWrap" \in ents[i].tags =>
               /\ ents[i].pos[1] = WindowWidth \div 2 + 4 =>
                     ents'[i].pos[1] = -ents[i].pos[1]
               /\ ents'[i].pos[1] = IF Wraps(ents[i], 1, WindowWidth)
                                    THEN -ents[i].pos[1] ELSE ents[i].pos[1]
               /\ ents'[i].pos[2] = IF Wraps(ents[i], 2, WindowHeight)
                                    THEN -ents[i].pos[2] ELSE ents[i].pos[2]]_vars

\* C9, amended: screen_wrap negates the x of a wrap-tagged entity that is
\* at window width / 2 + half its largest sprite dimension + 1 px, leaves
\* the x of one at window width / 2 + 1 px as it is, and negates an axis
\* exactly when it wraps.
C9_WrapOffScreen ==
    [][Ran("screen_wrap") =>
         \A i \in 1..Len(ents) :
            "ScreenWrap" \in ents[i].tags =>
               /\ ents[i].pos[1] = (WindowWidth + Largest(ents[i])) \div 2 + 4 =>
                     ents'[i].pos[1] = -ents[i].pos[1]
               /\ ents[i].pos[1] = WindowWidth \div 2 + 4 =>
                     ents'[i].pos[1] = ents[i].pos[1]
               /\ ents'[i].pos[1] = IF Wraps(ents[i], 1, WindowWidth)
                                    THEN -ents[i].pos[1] ELSE ents[i].pos[1]
               /\ ents'[i].pos[2] = IF Wraps(ents[i], 2, WindowHeight)
                                    THEN -ents[i].pos[2] ELSE ents[i].pos[2]]_vars

\* screen_wrap has carried an entity from just beyond the right edge to the
\* left
C9_Witness ==
    /\ "screen_wrap" \notin pending
    /\ \E i \in 1..Len(ents) :
          /\ "ScreenWrap" \in ents[i].tags
          /\ ents[i].pos[1] = -((WindowWidth + Largest(ents[i])) \div 2 + 4)

\* C10: wrapping what screen_wrap has wrapped gives the translation back,
\* and an axis that does not wrap is left alone.
C10_Involutive ==
    [][Ran("screen_wrap") =>
         \A i \in 1..Len(ents) :
            "ScreenWrap" \in ents[i].tags =>
               /\ WrapTranslation(ents'[i].pos, ents'[i].custom_size) = ents[i].pos
               /\ ~Wraps(ents[i], 1, WindowWidth) => ents'[i].pos[1] = ents[i].pos[1]
               /\ ~Wraps(ents[i], 2, WindowHeight) => ents'[i].pos[2] = ents[i].pos[2]]_vars

\* screen_wrap has carried an entity from beyond the top edge to the bottom,
\* its x being inside the window
C10_Witness ==
    /\ "screen_wrap" \notin pending
    /\ \E i \in 1..Len(ents) :
          /\ "ScreenWrap" \in ents[i].tags
          /\ ents[i].pos[2] = -((WindowHeight + Largest(ents[i])) \div 2 + 4)
          /\ ents[i].pos[1] = 0

\* C11: screen_despawn queues the despawn of every ScreenDespawn-tagged
\* entity whose |x| exceeds half the window width or whose |y| exceeds half
\* the window height, and of no other tagged entity; the frame boundary
\* removes the former from the store and keeps the latter.
C11_DespawnOffScreen ==
    [][/\ Ran("screen_despawn") =>
            \A i \in 1..Len(ents) :
               "ScreenDespawn" \in ents[i].tags =>
                  IF \/ 2 * Abs(ents[i].pos[1]) > WindowWidth
                     \/ 2 * Abs(ents[i].pos[2]) > WindowHeight
                  THEN i \in despawns'
                  ELSE i \in despawns' <=> i \in despawns
       /\ Boundary =>
            \A i \in 1..Len(ents) :
               "ScreenDespawn" \in ents[i].tags =>
                  IF \/ 2 * Abs(ents[i].pos[1]) > WindowWidth
                     \/ 2 * Abs(ents[i].pos[2]) > WindowHeight
                  THEN Copies(ents[i], ents') = 0
                  ELSE Copies(ents[i], ents') = 1]_vars

\* screen_despawn has queued a bullet that is beyond the top edge only, by
\* one pixel
C11_Witness ==
    /\ "screen_despawn" \notin pending
    /\ \E i \in despawns :
          /\ "ScreenDespawn" \in ents[i].tags
          /\ ents[i].pos = <<0, WindowHeight \div 2 + 4>>

\* every entity of the store and every entity queued for spawning
Everything ==
    {ents[i] : i \in 1..Len(ents)}
        \cup {spawns.meteors[i] : i \in 1..Len(spawns.meteors)}
        \cup {spawns.ships[i] : i \in 1..Len(spawns.ships)}
        \cup {spawns.bullets[i] : i \in 1..Len(spawns.bullets)}

\* C12: no entity carries both the ScreenWrap and the ScreenDespawn tag:
\* every ship and every meteor carries ScreenWrap only, every bullet
\* ScreenDespawn only.
C12_TagsExclusive ==
    \A e \in Everything :
       /\ ~({"ScreenWrap", "ScreenDespawn"} \subseteq e.tags)
       /\ e.kind \in {"Meteor", "Spaceship"} => e.tags = {"ScreenWrap"}
       /\ e.kind = "Bullet" => e.tags = {"ScreenDespawn"}

\* a meteor, a ship and a bullet are in the store together
C12_Witness ==
    /\ Has("Meteor")
    /\ Has("Spaceship")
    /\ Has("Bullet")

\* how many entities of a kind a sequence holds
Count(kind, seq) == Cardinality({k \in 1..Len(seq) : seq[k].kind = kind})

\* C13: spaceship_collision leaves the entity store and the spawn queue as
\* they are: it only sends events and queues despawns. Entities leave and
\* enter the store only at the frame boundary, which removes the queued
\* despawns and adds the queued spawns; a meteor is queued for spawning only
\* by create_meteor and a ship only by create_ship, one per unread event.
C13_DeferredEffects ==
    [][/\ Ran("spaceship_collision") =>
            /\ ents' = ents
            /\ spawns' = spawns
            /\ despawns \subseteq despawns'
       /\ ~Boundary =>
            /\ Len(ents') = Len(ents)
            /\ \A i \in 1..Len(ents) : ents'[i].kind = ents[i].kind
       /\ Boundary =>
            \A kind \in {"Meteor", "Spaceship", "Bullet"} :
               Count(kind, ents') =
                  Cardinality(Indices(kind) \ despawns)
                     + Count(kind, spawns.meteors \o spawns.ships \o spawns.bullets)
       /\ ~Boundary =>
            /\ spawns'.meteors # spawns.meteors => Ran("create_meteor")
            /\ spawns'.ships # spawns.ships => Ran("create_ship")
       /\ Ran("create_meteor") =>
            Len(spawns'.meteors) =
               Len(spawns.meteors) + Len(meteorEvents.a) + Len(meteorEvents.b)
       /\ Ran("create_ship") =>
            Len(spawns'.ships) =
               Len(spawns.ships) + Len(shipEvents.a) + Len(shipEvents.b)]_vars

\* the pass has queued the despawn of a meteor and a bullet and sent the
\* events of the two halves, the meteor and the bullet still being in the
\* store
C13_Witness ==
    /\ "spaceship_collision" \notin pending
    /\ \E p \in pairs :
          /\ p[1] \in despawns /\ p[2] \in despawns
          /\ ents[p[1]].kind = "Meteor" /\ ents[p[2]].kind = "Bullet"
    /\ Len(meteorEvents.b) = 2
    /\ spawns.meteors = <<>>

\* C14: transform_vector adds (cos(a) * v, sin(a) * v) to the position, a
\* being the angle of the orientation about the z axis and v the velocity,
\* and changes nothing else.
C14_MovementVector ==
    [][\E v \in Speeds :
          ents' = [ents EXCEPT ![1].pos =
                     <<@[1] + (CosSin(ents[1].rot)[1] * v) \div 1000,
                       @[2] + (CosSin(ents[1].rot)[2] * v) \div 1000>>]]_vars

\* the same for the orientations the test covers
C14_TestedOrientations ==
    [][ents[1].rot \in {0, HalfPi, Pi, 3 * HalfPi, (5 * Pi) \div 4} =>
          \E v \in Speeds :
             ents' = [ents EXCEPT ![1].pos =
                        <<@[1] + (CosSin(ents[1].rot)[1] * v) \div 1000,
                          @[2] + (CosSin(ents[1].rot)[2] * v) \div 1000>>]]_vars

\* C15: lives stays between 0 and INITIAL_LIVES and its decrement never
\* overflows, whatever pairs intersect in one frame.
C15_LivesInRange ==
    /\ game.lives \in 0..INITIAL_LIVES
    /\ ~panicked

\* C16: there is at most one ship: the ships of the store that are not
\* queued for despawn, the ships queued for spawning and the unread
\* ShipSpawnEvents are never more than one together.
C16_OneShip ==
    Cardinality(Indices("Spaceship") \ despawns)
       + Len(spawns.ships) + Len(shipEvents.a) + Len(shipEvents.b) <= 1

\* C17: a new game starts clean: when a start event takes the state from
\* Ended to Loading, every meteor of the ended game that is in the store is
\* queued for despawn, so that none is left when the new game is InProgress.
C17_CleanRestart ==
    [][(game.gameState = "Ended" /\ game'.gameState = "Loading") =>
          Indices("Meteor") \subseteq despawns']_vars

\* C18: every spawn event is materialised exactly once, whatever the order
\* of senders and readers: create_meteor queues one meteor of the event's
\* size, velocity and position for each MeteorSpawnEvent it has not read, and
\* create_ship one ship of the event's orientation for each ShipSpawnEvent,
\* the events sent before and after the reader ran in the previous frame
\* included; a read event is not read again, no other step takes an event
\* away, the buffer swap at the frame boundary drops no unread event, and
\* every queued spawn becomes one entity at the boundary.
C18_EventsOnce ==
    [][/\ Ran("create_meteor") =>
            LET evs == meteorEvents.a \o meteorEvents.b
            IN /\ Len(spawns'.meteors) = Len(spawns.meteors) + Len(evs)
               /\ \A k \in 1..Len(evs) :
                     LET e == spawns'.meteors[Len(spawns.meteors) + k]
                     IN /\ e.kind = "Meteor"
                        /\ e.size = evs[k].size
                        /\ e.vel = evs[k].initial_velocity
                        /\ e.pos = evs[k].initial_position
               /\ meteorEvents'.a \o meteorEvents'.b = <<>>
       /\ Ran("create_ship") =>
            LET evs == shipEvents.a \o shipEvents.b
            IN /\ Len(spawns'.ships) = Len(spawns.ships) + Len(evs)
               /\ \A k \in 1..Len(evs) :
                     LET e == spawns'.ships[Len(spawns.ships) + k]
                     IN /\ e.kind = "Spaceship"
                        /\ e.rot = evs[k].initial_orientation
               /\ shipEvents'.a \o shipEvents'.b = <<>>
       /\ (~Ran("create_meteor") /\ ~Boundary) =>
            /\ meteorEvents'.a = meteorEvents.a
            /\ SubSeq(meteorEvents'.b, 1, Len(meteorEvents.b)) = meteorEvents.b
       /\ (~Ran("create_ship") /\ ~Boundary) =>
            /\ shipEvents'.a = shipEvents.a
            /\ SubSeq(shipEvents'.b, 1, Len(shipEvents.b)) = shipEvents.b
       /\ Boundary =>
            /\ meteorEvents.a = <<>> /\ meteorEvents'.a = meteorEvents.b
            /\ shipEvents.a = <<>> /\ shipEvents'.a = shipEvents.b
            /\ \A i \in 1..Len(spawns.meteors) :
                  Copies(spawns.meteors[i], ents') >=
                     Copies(spawns.meteors[i], spawns.meteors)
            /\ Count("Meteor", ents') =
                  Cardinality(Indices("Meteor") \ despawns) + Len(spawns.meteors)
            /\ Count("Spaceship", ents') =
                  Cardinality(Indices("Spaceship") \ despawns) + Len(spawns.ships)]_vars

\* create_meteor has materialised the two events of a split that the
\* collision pass sent in the previous frame after create_meteor had run: the
\* pass has not run in this frame yet
C18_Witness ==
    /\ Len(spawns.meteors) = 2
    /\ \A i \in 1..2 : spawns.meteors[i].size = InitialMeteorSize \div 2
    /\ "spaceship_collision" \in pending
    /\ meteorEvents = NoEvents

\* C19: the ship create_ship makes for a ShipSpawnEvent has the event's
\* initial_position and initial_orientation, and the meteor create_meteor
\* makes for a MeteorSpawnEvent is at the event's initial_position.
C19_SpawnAtEvent ==
    [][/\ Ran("create_ship") =>
            \A k \in 1..(Len(shipEvents.a) + Len(shipEvents.b)) :
               LET ev == (shipEvents.a \o shipEvents.b)[k]
                   ship == spawns'.ships[Len(spawns.ships) + k]
               IN /\ ship.pos = ev.initial_position
                  /\ ship.rot = ev.initial_orientation
       /\ Ran("create_meteor") =>
            \A k \in 1..(Len(meteorEvents.a) + Len(meteorEvents.b)) :
               LET ev == (meteorEvents.a \o meteorEvents.b)[k]
                   meteor == spawns'.meteors[Len(spawns.meteors) + k]
               IN meteor.pos = ev.initial_position]_vars

\* the same, leaving out the position of the ship
C19_OrientationAndMeteor ==
    [][/\ Ran("create_ship") =>
            \A k \in 1..(Len(shipEvents.a) + Len(shipEvents.b)) :
               spawns'.ships[Len(spawns.ships) + k].rot =
                  (shipEvents.a \o shipEvents.b)[k].initial_orientation
       /\ Ran("create_meteor") =>
            \A k \in 1..(Len(meteorEvents.a) + Len(meteorEvents.b)) :
               spawns'.meteors[Len(spawns.meteors) + k].pos =
                  (meteorEvents.a \o meteorEvents.b)[k].initial_position]_vars

\* C20: setup_physics running when the state is Loading sends exactly one
\* MeteorSpawnEvent, of size 8, and exactly one ShipSpawnEvent, at (0, 0)
\* with orientation pi/2, and sets the state to InProgress, changing nothing
\* else of the Game; running in any other state it sends no event and leaves
\* the Game as it is. No other step takes the state from Loading to
\* InProgress.
C20_SetupOncePerGame ==
    [][/\ Ran("setup_physics") =>
            IF game.gameState = "Loading"
            THEN /\ Len(Sent(meteorEvents, meteorEvents')) = 1
                 /\ Sent(meteorEvents, meteorEvents')[1].size = 8
                 /\ Sent(shipEvents, shipEvents')
                      = <<[initial_position |-> <<0, 0>>,
                           initial_orientation |-> 1571]>>
                 /\ game' = [game EXCEPT !.gameState = "InProgress"]
            ELSE /\ meteorEvents' = meteorEvents
                 /\ shipEvents' = shipEvents
                 /\ game' = game
       /\ (game.gameState = "Loading" /\ game'.gameState = "InProgress") =>
            Ran("setup_physics")]_vars

\* setup_physics has sent the two events of a game in the frame in which
\* update_game_state read the start event, the player having no click left
C20_Witness ==
    /\ {"setup_physics", "update_game_state"} \cap pending = {}
    /\ game = [score |-> 0, lives |-> 3, gameState |-> "InProgress"]
    /\ Len(meteorEvents.b) = 1
    /\ shipEvents.b = <<[initial_position |-> <<0, 0>>, initial_orientation |-> 1571]>>
    /\ env.clicks = 0

RECURSIVE SizeSum(_)
SizeSum(seq) ==
    IF seq = <<>> THEN 0 ELSE (Head(seq).size - 1) + SizeSum(Tail(seq))

\* the meteors that are live or pending: those of the store that are not
\* queued for despawn, those queued for spawning, and the unread
\* MeteorSpawnEvents (a record with a size each)
LiveAndPending ==
    [i \in 1..Len(SortedSeq(Indices("Meteor") \ despawns)) |->
        ents[SortedSeq(Indices("Meteor") \ despawns)[i]]]
      \o spawns.meteors \o meteorEvents.a \o meteorEvents.b

\* the total of (size - 1) over them
Measure == SizeSum(LiveAndPending)

\* C21: within one game, each meteor being hit by at most one bullet in a
\* frame, bullets hit meteors at most 7 times: the score, which is 0 when the
\* game starts and counts the hits, never exceeds 7.
C21_SplittingBounded == game.score <= InitialMeteorSize - 1

\* every collision pass that reports bullet hits, at most one bullet for a
\* meteor, takes one off the total of (size - 1) and adds one to the score
\* for each hit
C21_MeasureDecreases ==
    [][Ran("spaceship_collision") =>
          LET hits == Cardinality(PairsWith("Bullet"))
          IN /\ Measure' = Measure - hits
             /\ game'.score = game.score + hits]_vars

====
